---- MODULE Spec2Model ----
(***************************************************************************)
(* A model of pypinfo/core.py: the date validator/normaliser, the query    *)
(* builder (build_query) and the result shaper (add_percentages,           *)
(* add_download_total, tabulate).                                          *)
(*                                                                         *)
(* A Python str is modelled as a sequence of one-character strings, so     *)
(* that len(), int(), str(), split(), isdigit(), endswith() and the format *)
(* conversions are computed character by character.  The query text is a   *)
(* sequence of string pieces: the literals of the source are kept as       *)
(* single pieces, everything computed is spelled out in characters.        *)
(* An Optional value is a sequence of length <= 1: None is << >> and a     *)
(* value v is <<v>>.                                                       *)
(***************************************************************************)
EXTENDS Integers, Sequences, FiniteSets, TLC

\* ------------------------------------------------------------------ bounds
\* Relative day offsets range over -MaxOffset .. MaxOffset.
MaxOffset == 3
\* Day counts range over -1 .. MaxDays.
MaxDays == 2
\* The requested field list has at most MaxFields entries.
MaxFields == 3
\* A table has at most MaxRows data rows to start with.
MaxRows == 2
\* At most MaxOps shaper calls are made on one table.
MaxOps == 3

\* ------------------------------------------------------- Python str helpers
None == << >>
Some(v) == <<v>>

DigitChars == <<"0", "1", "2", "3", "4", "5", "6", "7", "8", "9">>
DigitSet == {DigitChars[i] : i \in 1..10}
DigitVal(c) == (CHOOSE i \in 1..10 : DigitChars[i] = c) - 1

\* str.isdigit(): non-empty and every character a digit.
IsDigits(s) == Len(s) > 0 /\ \A i \in 1..Len(s) : s[i] \in DigitSet

RECURSIVE NatOf(_)
NatOf(s) == IF s = << >> THEN 0
            ELSE 10 * NatOf(SubSeq(s, 1, Len(s) - 1)) + DigitVal(s[Len(s)])

\* int(s) succeeds: an optional sign and at least one digit.
IsIntText(s) ==
    /\ Len(s) > 0
    /\ IF s[1] \in {"-", "+"} THEN IsDigits(Tail(s)) ELSE IsDigits(s)

\* int(s), for IsIntText(s).
IntOf(s) == IF s[1] = "-" THEN 0 - NatOf(Tail(s))
            ELSE IF s[1] = "+" THEN NatOf(Tail(s))
            ELSE NatOf(s)

RECURSIVE StrNat(_)
StrNat(n) == IF n < 10 THEN <<DigitChars[n + 1]>>
             ELSE StrNat(n \div 10) \o <<DigitChars[(n % 10) + 1]>>

\* str(n)
Str(n) == IF n < 0 THEN <<"-">> \o StrNat(0 - n) ELSE StrNat(n)

\* '{:0w}'.format(n) for n >= 0
RECURSIVE ZeroPad(_, _)
ZeroPad(s, w) == IF Len(s) >= w THEN s ELSE ZeroPad(<<"0">> \o s, w)

\* s.split(sep) for a one-character separator
RECURSIVE Split(_, _)
Split(s, sep) ==
    IF \A i \in 1..Len(s) : s[i] # sep THEN <<s>>
    ELSE LET k == CHOOSE i \in 1..Len(s) :
                      s[i] = sep /\ \A j \in 1..(i - 1) : s[j] # sep
         IN  <<SubSeq(s, 1, k - 1)>> \o Split(SubSeq(s, k + 1, Len(s)), sep)

\* sep.join(parts)
RECURSIVE Join(_, _)
Join(parts, sep) ==
    IF parts = << >> THEN << >>
    ELSE IF Len(parts) = 1 THEN parts[1]
    ELSE parts[1] \o sep \o Join(Tail(parts), sep)

RECURSIVE Repeat(_, _)
Repeat(c, n) == IF n <= 0 THEN << >> ELSE <<c>> \o Repeat(c, n - 1)

\* ------------------------------------------------------------ the calendar
IsLeap(y) == (y % 4 = 0 /\ y % 100 # 0) \/ y % 400 = 0

\* calendar.monthrange(year, month)[1]
DaysInMonth(y, m) ==
    IF m = 2 THEN (IF IsLeap(y) THEN 29 ELSE 28)
    ELSE IF m \in {4, 6, 9, 11} THEN 30 ELSE 31

\* datetime.date(y, m, d) does not raise
DateOk(y, m, d) ==
    /\ y >= 1 /\ y <= 9999
    /\ m >= 1 /\ m <= 12
    /\ d >= 1 /\ d <= DaysInMonth(y, m)

\* str(date(y, m, d))
IsoDate(y, m, d) ==
    ZeroPad(StrNat(y), 4) \o <<"-">> \o ZeroPad(StrNat(m), 2)
        \o <<"-">> \o ZeroPad(StrNat(d), 2)

\* -------------------------------------------------- the date functions
START_DATE == <<"-", "3", "1">>
END_DATE == <<"-", "1">>
DEFAULT_LIMIT == 10

\* month_ends: [ok, first, last]; not ok stands for the ValueError raised by
\* the unpacking, by int() or by date().
month_ends(yyyy_mm) ==
    LET parts == Split(yyyy_mm, "-")
    IN  IF Len(parts) # 2 \/ ~IsIntText(parts[1]) \/ ~IsIntText(parts[2])
        THEN [ok |-> FALSE, first |-> << >>, last |-> << >>]
        ELSE LET year == IntOf(parts[1])
                 month == IntOf(parts[2])
             IN  IF ~DateOk(year, month, 1)
                 THEN [ok |-> FALSE, first |-> << >>, last |-> << >>]
                 ELSE [ok |-> TRUE,
                       first |-> IsoDate(year, month, 1),
                       last |-> IsoDate(year, month, DaysInMonth(year, month))]

normalize_dates(start_date, end_date) ==
    <<IF month_ends(start_date).ok THEN month_ends(start_date).first
      ELSE start_date,
      IF month_ends(end_date).ok THEN month_ends(end_date).last
      ELSE end_date>>

\* datetime.strptime(s, '%Y-%m-%d') does not raise: %Y is four digits, %m
\* and %d are one or two digits naming a month and a day of it.
StrptimeOk(s) ==
    LET parts == Split(s, "-")
    IN  /\ Len(parts) = 3
        /\ IsDigits(parts[1]) /\ Len(parts[1]) = 4
        /\ IsDigits(parts[2]) /\ Len(parts[2]) \in {1, 2}
        /\ IsDigits(parts[3]) /\ Len(parts[3]) \in {1, 2}
        /\ NatOf(parts[2]) \in 1..12
        /\ NatOf(parts[3]) \in 1..31
        /\ DateOk(NatOf(parts[1]), NatOf(parts[2]), NatOf(parts[3]))

\* A faulty variant of validate_date: `int(date_text) <= 0`.
validate_date_zero_accepted(date_text) ==
    IF IsIntText(date_text) /\ IntOf(date_text) <= 0 THEN "True"
    ELSE IF StrptimeOk(date_text) THEN "True"
    ELSE "ValueError"

\* validate_date: "True" when it returns True, "ValueError" when it raises.
validate_date(date_text) ==
    IF IsIntText(date_text) /\ IntOf(date_text) < 0 THEN "True"
    ELSE IF StrptimeOk(date_text) THEN "True"
    ELSE "ValueError"

\* format_date: a bound int() accepts becomes a relative-now expression,
\* any other bound an absolute timestamp literal.
DATE_ADD == <<"TIMESTAMP_ADD(CURRENT_TIMESTAMP(), INTERVAL ", " DAY)">>
START_TIMESTAMP == <<"TIMESTAMP(\"", " 00:00:00\")">>
END_TIMESTAMP == <<"TIMESTAMP(\"", " 23:59:59\")">>

format_date(date, timestamp_format) ==
    IF IsIntText(date)
    THEN <<DATE_ADD[1]>> \o Str(IntOf(date)) \o <<DATE_ADD[2]>>
    ELSE <<timestamp_format[1]>> \o date \o <<timestamp_format[2]>>

\* ------------------------------------------------------ the field catalog
\* pypinfo.fields: a Field is (name, data); the name is kept in characters.
DownloadCount ==
    <<"d", "o", "w", "n", "l", "o", "a", "d", "_", "c", "o", "u", "n", "t">>
Downloads == [name |-> DownloadCount, data |-> "COUNT(*)"]
Project == [name |-> <<"p", "r", "o", "j", "e", "c", "t">>,
            data |-> "file.project"]
Version == [name |-> <<"v", "e", "r", "s", "i", "o", "n">>,
            data |-> "file.version"]
Percent3 == [name |-> <<"p", "e", "r", "c", "e", "n", "t", "_", "3">>,
             data |-> "ROUND(100 * SUM(CASE ...) / COUNT(*), 1)"]
Fields == {Project, Version, Percent3, Downloads}
AGGREGATES == {Percent3, Downloads}

\* ------------------------------------------------------ canonicalize_name
UpperChars == <<"A", "B", "C", "D", "E", "F", "G", "H", "I", "J", "K", "L",
                "M", "N", "O", "P", "Q", "R", "S", "T", "U", "V", "W", "X",
                "Y", "Z">>
LowerChars == <<"a", "b", "c", "d", "e", "f", "g", "h", "i", "j", "k", "l",
                "m", "n", "o", "p", "q", "r", "s", "t", "u", "v", "w", "x",
                "y", "z">>
Lower(c) == IF \E i \in 1..26 : UpperChars[i] = c
            THEN LowerChars[CHOOSE i \in 1..26 : UpperChars[i] = c]
            ELSE c

\* packaging.utils.canonicalize_name: re.sub(r"[-_.]+", "-", name).lower()
RECURSIVE canonicalize_name(_)
canonicalize_name(name) ==
    IF name = << >> THEN << >>
    ELSE IF name[1] \in {"-", "_", "."}
    THEN IF Len(name) > 1 /\ name[2] \in {"-", "_", "."}
         THEN canonicalize_name(Tail(name))
         ELSE <<"-">> \o canonicalize_name(Tail(name))
    ELSE <<Lower(name[1])>> \o canonicalize_name(Tail(name))

\* ------------------------------------------------------------ build_query
\* the truth value of an Optional[str] and of an Optional[int]
Truthy(opt) == opt # None /\ opt[1] # << >>
TruthyInt(opt) == opt # None /\ opt[1] # 0
\* `x or default`
OrElse(opt, default) == IF Truthy(opt) THEN opt[1] ELSE default
OrElseInt(opt, default) == IF TruthyInt(opt) THEN opt[1] ELSE default

\* lines 126-131: deduplicate, keeping the first occurrence
RECURSIVE Dedup(_, _)
Dedup(all_fields, used_fields) ==
    IF all_fields = << >> THEN << >>
    ELSE IF all_fields[1] \in used_fields
    THEN Dedup(Tail(all_fields), used_fields)
    ELSE <<all_fields[1]>>
             \o Dedup(Tail(all_fields), used_fields \cup {all_fields[1]})

\* A faulty variant of SelectedFields: the used_fields test left out.
SelectedFields_undeduplicated(all_fields) == all_fields \o <<Downloads>>

\* lines 126-133
SelectedFields(all_fields) == Dedup(all_fields, {}) \o <<Downloads>>

\* lines 134-137
SELECT == "SELECT\n"
RECURSIVE SelectLines(_)
SelectLines(fields) ==
    IF fields = << >> THEN << >>
    ELSE <<"  ", fields[1].data, " as ">> \o fields[1].name \o <<",\n">>
             \o SelectLines(Tail(fields))

\* line 14 (the back quotes around the table name are left out)
FROM == "FROM bigquery-public-data.pypi.file_downloads"

\* A faulty variant of WhereClause: the default filters are not in an else
\* branch.
WhereClause_filters_kept(start_expr, end_expr, project, where, pip) ==
    LET head == <<"\nWHERE timestamp BETWEEN ">> \o start_expr \o <<" AND ">>
                    \o end_expr \o <<"\n">>
        raw == IF Truthy(where) THEN <<"  AND ">> \o where[1] \o <<"\n">>
               ELSE << >>
        conditions ==
            (IF project # << >>
             THEN <<<<"file.project = \"">> \o project \o <<"\"\n">>>>
             ELSE << >>)
            \o (IF pip THEN <<<<"details.installer.name = \"pip\"\n">>>>
                ELSE << >>)
    IN  IF conditions # << >>
        THEN head \o raw \o <<"  AND ">> \o Join(conditions, <<"  AND ">>)
        ELSE head \o raw

\* lines 141-152
WhereClause(start_expr, end_expr, project, where, pip) ==
    LET head == <<"\nWHERE timestamp BETWEEN ">> \o start_expr \o <<" AND ">>
                    \o end_expr \o <<"\n">>
        conditions ==
            (IF project # << >>
             THEN <<<<"file.project = \"">> \o project \o <<"\"\n">>>>
             ELSE << >>)
            \o (IF pip THEN <<<<"details.installer.name = \"pip\"\n">>>>
                ELSE << >>)
    IN  IF Truthy(where) THEN head \o <<"  AND ">> \o where[1] \o <<"\n">>
        ELSE IF conditions # << >>
        THEN head \o <<"  AND ">> \o Join(conditions, <<"  AND ">>)
        ELSE head

\* lines 154-167
GROUP_BY == "GROUP BY\n"
initial_length == 9
RECURSIVE NonAggregateNames(_)
NonAggregateNames(fields) ==
    IF fields = << >> THEN << >>
    ELSE (IF fields[1] \notin AGGREGATES THEN <<fields[1].name>> ELSE << >>)
             \o NonAggregateNames(Tail(fields))

GroupByClause(fields) ==
    IF Len(fields) > 1
    THEN LET non_aggregate_fields ==
                 NonAggregateNames(SubSeq(fields, 1, Len(fields) - 1))
             tail == <<" ", " ">> \o Join(non_aggregate_fields, <<",", " ">>)
                         \o <<"\n">>
         IN  IF initial_length + Len(tail) > initial_length
             THEN <<GROUP_BY>> \o tail
             ELSE << >>
    ELSE << >>

\* lines 169-170
OrderLimit(order, limit) ==
    <<"ORDER BY\n  ">> \o OrElse(order, Downloads.name) \o <<" DESC\n">>
        \o <<"LIMIT ">> \o Str(limit)

\* A faulty variant of DayStart: `int(start_date) - days`.
DayStart_from_start(start_date, end_date, days) ==
    IF ~TruthyInt(days) THEN [ok |-> TRUE, start |-> start_date]
    ELSE IF ~IsIntText(start_date) THEN [ok |-> FALSE, start |-> start_date]
    ELSE [ok |-> TRUE, start |-> Str(IntOf(start_date) - days[1])]

\* lines 109-110: the start bound after the day-count step; not ok stands
\* for the ValueError of int(end_date).
DayStart(start_date, end_date, days) ==
    IF ~TruthyInt(days) THEN [ok |-> TRUE, start |-> start_date]
    ELSE IF ~IsIntText(end_date) THEN [ok |-> FALSE, start |-> start_date]
    ELSE [ok |-> TRUE, start |-> Str(IntOf(end_date) - days[1])]

\* lines 116-121: does the range check end build_query?  The ValueError of
\* line 118 is raised inside the try whose handler catches ValueError.
RangeCheckRaises(start_date, end_date) ==
    LET both_int == IsIntText(start_date) /\ IsIntText(end_date)
        raised == ~both_int \/ IntOf(start_date) >= IntOf(end_date)
        caught == raised
    IN  raised /\ ~caught

Failure(msg) == [ok |-> FALSE, error |-> msg, query |-> << >>]

build_query(project, all_fields, start_date, end_date, days, limit, where, order, pip) ==
    LET project1 == canonicalize_name(project)
        start1 == OrElse(start_date, START_DATE)
        end1 == OrElse(end_date, END_DATE)
        limit1 == OrElseInt(limit, DEFAULT_LIMIT)
        ds == DayStart(start1, end1, days)
        norm == normalize_dates(ds.start, end1)
        fields == SelectedFields(all_fields)
    IN  IF ~ds.ok THEN Failure("ValueError: invalid literal for int()")
        ELSE IF validate_date(norm[1]) # "True"
                    \/ validate_date(norm[2]) # "True"
        THEN Failure("ValueError: Dates must be negative integers or YYYY-MM[-DD] in the past.")
        ELSE IF RangeCheckRaises(norm[1], norm[2])
        THEN Failure("ValueError: End date must be greater than start date.")
        ELSE [ok |-> TRUE, error |-> "",
              query |-> <<SELECT>> \o SelectLines(fields) \o <<FROM>>
                  \o WhereClause(format_date(norm[1], START_TIMESTAMP),
                                 format_date(norm[2], END_TIMESTAMP),
                                 project1, where, pip)
                  \o GroupByClause(fields)
                  \o OrderLimit(order, limit1)]

\* ------------------------------------------------------- number formats
\* '{:,}'.format(n) for n >= 0
RECURSIVE Commas(_)
Commas(n) == IF n < 1000 THEN StrNat(n)
             ELSE Commas(n \div 1000) \o <<",">> \o ZeroPad(StrNat(n % 1000), 3)

\* a / b rounded to an integer, halves to the even neighbour (a >= 0, b > 0).
\* The quotient is taken exactly.  Python formats the binary float nearest to
\* it, which gives the same digits unless the exact quotient is a tie that is
\* no binary fraction (7/40 to two digits): the float then decides.
RoundHalfEven(a, b) ==
    LET q == a \div b
        r == a % b
    IN  IF 2 * r < b THEN q
        ELSE IF 2 * r > b THEN q + 1
        ELSE IF q % 2 = 0 THEN q ELSE q + 1

RECURSIVE Pow10(_)
Pow10(k) == IF k <= 0 THEN 1 ELSE 10 * Pow10(k - 1)

\* '{:.2%}'.format(a / t)
PercentSign(a, t) ==
    LET n == RoundHalfEven(10000 * a, t)
    IN  StrNat(n \div 100) \o <<".">> \o ZeroPad(StrNat(n % 100), 2) \o <<"%">>

\* the least k >= 0 with a * 10^k >= t, for 0 < a <= t: a / t lies in
\* [10^-k, 10^(1-k))
RECURSIVE Shift(_, _, _)
Shift(a, t, k) == IF a * Pow10(k) >= t THEN k ELSE Shift(a, t, k + 1)

\* '{:.2}'.format(a / t) for 0 <= a <= t: two significant digits, fixed
\* notation down to 1e-4 and scientific notation below.
PercentBare(a, t) ==
    IF a = 0 THEN <<"0", ".", "0">>
    ELSE LET k0 == Shift(a, t, 0)
             m0 == RoundHalfEven(a * Pow10(k0 + 1), t)
             k == IF m0 = 100 THEN k0 - 1 ELSE k0
             m == IF m0 = 100 THEN 10 ELSE m0
             d1 == <<DigitChars[(m \div 10) + 1]>>
             d2 == IF m % 10 = 0 THEN << >> ELSE <<DigitChars[(m % 10) + 1]>>
         IN  IF k <= 0 THEN d1 \o <<".">> \o <<DigitChars[(m % 10) + 1]>>
             ELSE IF k <= 4 THEN <<"0", ".">> \o Repeat("0", k - 1) \o d1 \o d2
             ELSE d1 \o (IF d2 = << >> THEN << >> ELSE <<".">> \o d2)
                      \o <<"e", "-">> \o ZeroPad(StrNat(k), 2)

\* ------------------------------------------------------ the result shaper
\* A table is a sequence of rows, a row a sequence of cells, a cell a str.
\* The functions change the list they are given: each is modelled by the
\* list it leaves behind (rows), the exception it raises (err, "" for none)
\* and what it returns.
PercentCell == <<"p", "e", "r", "c", "e", "n", "t">>
TotalCell == <<"T", "o", "t", "a", "l">>

\* list.index(x): the first position of x, 0 when x is not in the list
IndexOf(list, x) ==
    IF \E i \in 1..Len(list) : list[i] = x
    THEN CHOOSE i \in 1..Len(list) : list[i] = x /\ \A j \in 1..(i - 1) : list[j] # x
    ELSE 0

\* list.insert(i, x), i a 1-based position not beyond the end
Insert(list, i, x) ==
    IF i > Len(list) THEN Append(list, x)
    ELSE SubSeq(list, 1, i - 1) \o <<x>> \o SubSeq(list, i, Len(list))

RECURSIVE SumColumn(_, _)
SumColumn(rows, index) ==
    IF rows = << >> THEN 0
    ELSE IntOf(rows[1][index]) + SumColumn(Tail(rows), index)

\* sum(int(row[index]) for row in rows) raises: "" when it does not
SumError(rows, index) ==
    IF \E r \in 1..Len(rows) : Len(rows[r]) < index THEN "IndexError"
    ELSE IF \E r \in 1..Len(rows) : ~IsIntText(rows[r][index]) THEN "ValueError"
    ELSE ""

\* A faulty variant of add_percentages: `row.insert` left out of the loop.
add_percentages_rows_untouched(rows, include_sign) ==
    IF rows = << >> THEN [rows |-> rows, err |-> "IndexError"]
    ELSE LET headers == rows[1]
             data == Tail(rows)
             index == IndexOf(headers, DownloadCount)
         IN  IF index = 0 THEN [rows |-> data, err |-> "ValueError"]
             ELSE IF SumError(data, index) # ""
             THEN [rows |-> data, err |-> SumError(data, index)]
             ELSE IF data # << >> /\ SumColumn(data, index) = 0
             THEN [rows |-> data, err |-> "ZeroDivisionError"]
             ELSE [rows |-> <<Insert(headers, index, PercentCell)>> \o data,
                   err |-> ""]

add_percentages(rows, include_sign) ==
    IF rows = << >> THEN [rows |-> rows, err |-> "IndexError"]
    ELSE LET headers == rows[1]
             data == Tail(rows)
             index == IndexOf(headers, DownloadCount)
             total_downloads == SumColumn(data, index)
             percent(row) ==
                 IF include_sign
                 THEN PercentSign(IntOf(row[index]), total_downloads)
                 ELSE PercentBare(IntOf(row[index]), total_downloads)
         IN  IF index = 0 THEN [rows |-> data, err |-> "ValueError"]
             ELSE IF SumError(data, index) # ""
             THEN [rows |-> data, err |-> SumError(data, index)]
             ELSE IF data # << >> /\ total_downloads = 0
             THEN [rows |-> data, err |-> "ZeroDivisionError"]
             ELSE [rows |-> <<Insert(headers, index, PercentCell)>>
                       \o [r \in 1..Len(data) |->
                              Insert(data[r], index, percent(data[r]))],
                   err |-> ""]

get_download_total(rows) ==
    IF rows = << >>
    THEN [rows |-> rows, err |-> "IndexError", total |-> 0, index |-> 0]
    ELSE LET headers == rows[1]
             data == Tail(rows)
             index == IndexOf(headers, DownloadCount)
         IN  IF index = 0
             THEN [rows |-> data, err |-> "ValueError", total |-> 0, index |-> 0]
             ELSE IF SumError(data, index) # ""
             THEN [rows |-> data, err |-> SumError(data, index),
                   total |-> 0, index |-> 0]
             ELSE [rows |-> rows, err |-> "",
                   total |-> SumColumn(data, index), index |-> index]

\* A faulty variant of add_download_total: the label written after the total.
add_download_total_label_last(rows) ==
    IF rows = << >> \/ rows[1] = << >>
    THEN [rows |-> rows, err |-> "IndexError"]
    ELSE LET total_row == [i \in 1..Len(rows[1]) |-> << >>]
             got == get_download_total(rows)
         IN  IF got.err # "" THEN [rows |-> got.rows, err |-> got.err]
             ELSE [rows |-> Append(got.rows,
                                   [[total_row EXCEPT ![got.index] = Str(got.total)]
                                       EXCEPT ![1] = TotalCell]),
                   err |-> ""]

add_download_total(rows) ==
    IF rows = << >> \/ rows[1] = << >>
    THEN [rows |-> rows, err |-> "IndexError"]
    ELSE LET total_row == [[i \in 1..Len(rows[1]) |-> << >>]
                              EXCEPT ![1] = TotalCell]
             got == get_download_total(rows)
         IN  IF got.err # "" THEN [rows |-> got.rows, err |-> got.err]
             ELSE [rows |-> Append(got.rows,
                                   [total_row EXCEPT ![got.index] = Str(got.total)]),
                   err |-> ""]

\* ---------------------------------------------------------------- tabulate
\* lines 225-227: the cell the first loop leaves in the table
Rewritten(item) == IF IsDigits(item) THEN Commas(NatOf(item)) ELSE item

\* lines 225-230: the cell marks its column right-aligned
MarksRight(item) ==
    IsDigits(item) \/ (Len(item) > 0 /\ item[Len(item)] = "%")

\* lines 231-233: the length the first loop measures for a cell
MeasuredLength(item) == Len(item)

RECURSIVE MaxOf(_)
MaxOf(S) == IF S = {} THEN 0
            ELSE LET x == CHOOSE y \in S : TRUE
                     m == MaxOf(S \ {x})
                 IN  IF x > m THEN x ELSE m

\* lines 219-233.  right_align is built as len(rows) references to ONE list
\* of flags (line 220), so a flag set for one row is set for every row: it
\* is a single row of flags here.
ColumnWidths(rows) ==
    [i \in 1..Len(rows[1]) |->
        MaxOf({MeasuredLength(rows[r][i]) : r \in 1..Len(rows)})]
RightAlign(rows) ==
    [i \in 1..Len(rows[1]) |-> \E r \in 1..Len(rows) : MarksRight(rows[r][i])]

\* str.rstrip()
RECURSIVE RStrip(_)
RStrip(s) == IF s # << >> /\ s[Len(s)] \in {" ", "\n"}
             THEN RStrip(SubSeq(s, 1, Len(s) - 1))
             ELSE s

\* lines 238-239
RECURSIVE HeaderCells(_, _, _)
HeaderCells(headers, column_widths, i) ==
    IF i > Len(headers) THEN << >>
    ELSE headers[i] \o Repeat(" ", column_widths[i] - Len(headers[i]) + 1)
             \o <<"|", " ">> \o HeaderCells(headers, column_widths, i + 1)

\* lines 244-249
RECURSIVE SeparatorCells(_, _, _, _, _)
SeparatorCells(n, column_widths, right_align, markdown, i) ==
    IF i > n THEN << >>
    ELSE Repeat("-", column_widths[i] - 1)
             \o (IF right_align[i] /\ markdown THEN <<":", " ", "|", " ">>
                 ELSE <<"-", " ", "|", " ">>)
             \o SeparatorCells(n, column_widths, right_align, markdown, i + 1)

\* lines 255-261
RECURSIVE RowCells(_, _, _, _)
RowCells(row, column_widths, right_align, i) ==
    IF i > Len(row) THEN << >>
    ELSE LET item == row[i]
             num_spaces == column_widths[i] - Len(item)
         IN  <<"|", " ">>
                 \o (IF right_align[i]
                     THEN Repeat(" ", num_spaces) \o item \o <<" ">>
                     ELSE item \o Repeat(" ", num_spaces + 1))
                 \o RowCells(row, column_widths, right_align, i + 1)

\* lines 254-262
RECURSIVE DataLines(_, _, _)
DataLines(rows, column_widths, right_align) ==
    IF rows = << >> THEN << >>
    ELSE RowCells(rows[1], column_widths, right_align, 1) \o <<"|", "\n">>
             \o DataLines(Tail(rows), column_widths, right_align)

NoTable == [rows |-> << >>, err |-> "", text |-> << >>,
            column_widths |-> << >>, right_align |-> << >>,
            headers |-> << >>]

\* tabulate: rows is the list left behind (its digit-only cells rewritten,
\* its first row popped), text the string returned.
tabulate(rows, markdown) ==
    IF rows = << >> THEN [NoTable EXCEPT !.err = "IndexError"]
    ELSE IF \E r \in 1..Len(rows) : Len(rows[r]) > Len(rows[1])
    THEN [NoTable EXCEPT !.err = "IndexError", !.rows = rows]
    ELSE LET column_widths == ColumnWidths(rows)
             right_align == RightAlign(rows)
             rewritten == [r \in 1..Len(rows) |->
                              [i \in 1..Len(rows[r]) |-> Rewritten(rows[r][i])]]
             headers == rewritten[1]
             data == Tail(rewritten)
             line1 == RStrip(<<"|", " ">> \o HeaderCells(headers, column_widths, 1))
             line2 == RStrip(line1 \o <<"\n", "|", " ">>
                                 \o SeparatorCells(Len(data[1]), column_widths,
                                                   right_align, markdown, 1))
         IN  IF data = << >>
             THEN [NoTable EXCEPT !.err = "IndexError", !.rows = data]
             ELSE [rows |-> data, err |-> "",
                   text |-> line2 \o <<"\n">>
                                \o DataLines(data, column_widths, right_align),
                   column_widths |-> column_widths,
                   right_align |-> right_align,
                   headers |-> headers]

\* =================================================================== state
\* unit   which part of core.py this run exercises
\* arg    the str handed to validate_date, with what it was written as
\* ret    what validate_date did ("none" before the call)
\* q      the arguments of build_query, each bound with what it was written as
\* res    what build_query did
\* rows   the table (the list the shaper functions are handed and change)
\* rows0  the table as the executor returned it
\* prev   the table as it was when the last shaper call was made
\* calls  the shaper calls made so far
\* out    what the last shaper call did
VARIABLES unit, arg, ret, q, res, rows, rows0, prev, calls, out
vars == <<unit, arg, ret, q, res, rows, rows0, prev, calls, out>>

\* ------------------------------------------------------------- the inputs
Years == {2019, 2020, 2100}
LeapYears == {2020}
Months == 0..13
Days == {0, 1, 28, 29, 30, 31, 32}

\* the calendar as a table, for naming what an input was written as
OnCalendar(y, m, d) ==
    /\ m \in 1..12
    /\ d >= 1
    /\ \/ d <= 28
       \/ d = 29 /\ (m # 2 \/ y \in LeapYears)
       \/ d = 30 /\ m # 2
       \/ d = 31 /\ m \in {1, 3, 5, 7, 8, 10, 12}

Dashed(a, b) == a \o <<"-">> \o b

IntArgs ==
    {[txt |-> Str(n),
      kind |-> IF n < 0 THEN "negint" ELSE IF n = 0 THEN "zero" ELSE "posint"] :
        n \in (0 - MaxOffset)..MaxOffset}
    \cup {[txt |-> <<"-">> \o ZeroPad(StrNat(n), 2),
           kind |-> IF n > 0 THEN "negint" ELSE "zero"] : n \in 0..MaxOffset}
    \cup {[txt |-> <<"+">> \o StrNat(n),
           kind |-> IF n > 0 THEN "posint" ELSE "zero"] : n \in 0..MaxOffset}

DayArgs ==
    {[txt |-> Dashed(Dashed(ZeroPad(StrNat(y), 4), ZeroPad(StrNat(m), 2)),
                     ZeroPad(StrNat(d), 2)),
      kind |-> IF OnCalendar(y, m, d) THEN "day" ELSE "noday"] :
        y \in Years, m \in Months, d \in Days}
    \cup {[txt |-> Dashed(Dashed(StrNat(y), StrNat(m)), StrNat(d)),
           kind |-> IF OnCalendar(y, m, d) THEN "day" ELSE "noday"] :
              y \in {2020}, m \in {2, 11}, d \in {1, 29, 30}}

MonthArgs ==
    {[txt |-> Dashed(ZeroPad(StrNat(y), 4), ZeroPad(StrNat(m), 2)),
      kind |-> "month"] : y \in Years, m \in Months}

OtherArgs ==
    {[txt |-> t, kind |-> "other"] :
        t \in {<< >>, <<"x">>, <<"-">>, <<"-", "x">>, <<"1", "x">>,
               <<"2", "0", "2", "0", "-", "0", "2", "-", "0", "1", "-">>,
               <<"2", "0", "2", "0", "-", "0", "2", "-", "0", "1", "x">>,
               <<"2", "0", "-", "0", "2", "-", "0", "1">>,
               <<"-", "2", "0", "2", "0", "-", "0", "2", "-", "0", "1">>}}

DateArgs == IntArgs \cup DayArgs \cup MonthArgs \cup OtherArgs
IdleArg == [txt |-> << >>, kind |-> "idle"]

\* the bounds handed to build_query
Feb10 == <<"2", "0", "2", "0", "-", "0", "2", "-", "1", "0">>
Feb30 == <<"2", "0", "2", "0", "-", "0", "2", "-", "3", "0">>
Feb == <<"2", "0", "2", "0", "-", "0", "2">>
Bounds ==
    {[txt |-> Str(n), kind |-> "rel", n |-> n] : n \in (0 - MaxOffset)..MaxOffset}
    \cup {[txt |-> Feb10, kind |-> "day", n |-> 0],
          [txt |-> Feb30, kind |-> "noday", n |-> 0],
          [txt |-> Feb, kind |-> "month", n |-> 0],
          [txt |-> <<"x">>, kind |-> "other", n |-> 0],
          [txt |-> << >>, kind |-> "empty", n |-> 0]}
OptBounds == {None} \cup {Some(b) : b \in Bounds}
OptDays == {None} \cup {Some(d) : d \in (0 - 1)..MaxDays}

Projects ==
    {[txt |-> << >>, canon |-> << >>],
     [txt |-> <<"R", "e", "q", "u", "e", "s", "t", "s">>,
      canon |-> <<"r", "e", "q", "u", "e", "s", "t", "s">>],
     [txt |-> <<"a", "_", ".", "B">>, canon |-> <<"a", "-", "b">>]}
Wheres == {None, Some(<< >>), Some(<<"x", " ", ">", " ", "1">>)}
Orders == {None, Some(<< >>), Some(Version.name)}
Limits == {None, Some(0), Some(5)}
FieldLists == UNION {[1..n -> Fields] : n \in 0..MaxFields}

BaseQuery ==
    [project |-> [txt |-> <<"R", "e", "q", "u", "e", "s", "t", "s">>,
                  canon |-> <<"r", "e", "q", "u", "e", "s", "t", "s">>],
     all_fields |-> <<Project>>, start_date |-> None, end_date |-> None,
     days |-> None, limit |-> None, where |-> None, order |-> None,
     pip |-> FALSE]

\* The bounds, the fields and the filters feed separate parts of the query
\* text: each group is varied in full against a few values of the others.
DateQueries ==
    {[BaseQuery EXCEPT !.start_date = s, !.end_date = e, !.days = d,
                       !.all_fields = f] :
        s \in OptBounds, e \in OptBounds, d \in OptDays,
        f \in {<< >>, <<Project>>}}
FieldQueries ==
    {[BaseQuery EXCEPT !.all_fields = f, !.where = w, !.days = d] :
        f \in FieldLists, w \in {None, Some(<<"x", " ", ">", " ", "1">>)},
        d \in {None, Some(1)}}
FilterQueries ==
    {[BaseQuery EXCEPT !.project = p, !.where = w, !.pip = b, !.limit = l,
                       !.order = o, !.all_fields = f] :
        p \in Projects, w \in Wheres, b \in BOOLEAN, l \in Limits,
        o \in Orders, f \in {<< >>, <<Project, Percent3>>}}
Queries == DateQueries \cup FieldQueries \cup FilterQueries

IdleRes == [called |-> FALSE, ok |-> FALSE, error |-> "", query |-> << >>]

\* the tables the executor returns: download_count once in the header, its
\* cells digit-only, every row as long as the header
Year == <<"y", "e", "a", "r">>
Headers == {<<DownloadCount>>, <<Year, DownloadCount>>, <<DownloadCount, Year>>}
CountCells == {<<"0">>, <<"7">>, <<"1", "2", "3", "4">>}
YearCells == {<<"2", "0", "1", "8">>, <<"p", "y">>}
RowsOf(header) ==
    {row \in [1..Len(header) -> CountCells \cup YearCells] :
        \A i \in 1..Len(header) :
            row[i] \in (IF header[i] = DownloadCount THEN CountCells
                        ELSE YearCells)}
Tables ==
    UNION {{<<h>> \o d : d \in [1..n -> RowsOf(h)]} :
              h \in Headers, n \in 0..MaxRows}

IdleOut == [op |-> "none", err |-> "", text |-> << >>,
            column_widths |-> << >>, right_align |-> << >>,
            headers |-> << >>]

\* -------------------------------------------------------------------- Init
InitDates ==
    /\ unit = "dates" /\ arg \in DateArgs /\ ret = "none"
    /\ q = BaseQuery /\ res = IdleRes
    /\ rows = << >> /\ rows0 = << >> /\ prev = << >> /\ calls = << >>
    /\ out = IdleOut

InitQuery ==
    /\ unit = "query" /\ arg = IdleArg /\ ret = "none"
    /\ q \in Queries /\ res = IdleRes
    /\ rows = << >> /\ rows0 = << >> /\ prev = << >> /\ calls = << >>
    /\ out = IdleOut

InitShaper ==
    /\ unit = "shaper" /\ arg = IdleArg /\ ret = "none"
    /\ q = BaseQuery /\ res = IdleRes
    /\ rows \in Tables /\ rows0 = rows /\ prev = rows /\ calls = << >>
    /\ out = IdleOut

Init == InitDates \/ InitQuery \/ InitShaper

\* ----------------------------------------------------------------- actions
ValidateDate ==
    /\ unit = "dates" /\ ret = "none"
    /\ ret' = validate_date(arg.txt)
    /\ UNCHANGED <<unit, arg, q, res, rows, rows0, prev, calls, out>>

BoundText(opt) == IF opt = None THEN None ELSE Some(opt[1].txt)

BuildQuery ==
    /\ unit = "query" /\ ~res.called
    /\ LET r == build_query(q.project.txt, q.all_fields,
                            BoundText(q.start_date), BoundText(q.end_date),
                            q.days, q.limit, q.where, q.order, q.pip)
       IN  res' = [called |-> TRUE, ok |-> r.ok, error |-> r.error,
                   query |-> r.query]
    /\ UNCHANGED <<unit, arg, ret, q, rows, rows0, prev, calls, out>>

\* a shaper call can be made while no call has raised
CanCall == unit = "shaper" /\ out.err = "" /\ Len(calls) < MaxOps

AddPercentages ==
    /\ CanCall
    /\ \E include_sign \in BOOLEAN :
           LET r == add_percentages(rows, include_sign)
           IN  /\ rows' = r.rows
               /\ out' = [IdleOut EXCEPT !.op = "add_percentages",
                                         !.err = r.err]
    /\ prev' = rows
    /\ calls' = Append(calls, "add_percentages")
    /\ UNCHANGED <<unit, arg, ret, q, res, rows0>>

AddDownloadTotal ==
    /\ CanCall
    /\ LET r == add_download_total(rows)
       IN  /\ rows' = r.rows
           /\ out' = [IdleOut EXCEPT !.op = "add_download_total",
                                     !.err = r.err]
    /\ prev' = rows
    /\ calls' = Append(calls, "add_download_total")
    /\ UNCHANGED <<unit, arg, ret, q, res, rows0>>

Tabulate ==
    /\ CanCall
    /\ \E markdown \in BOOLEAN :
           LET r == tabulate(rows, markdown)
           IN  /\ rows' = r.rows
               /\ out' = [op |-> "tabulate", err |-> r.err, text |-> r.text,
                          column_widths |-> r.column_widths,
                          right_align |-> r.right_align,
                          headers |-> r.headers]
    /\ prev' = rows
    /\ calls' = Append(calls, "tabulate")
    /\ UNCHANGED <<unit, arg, ret, q, res, rows0>>

Next ==
    \/ ValidateDate
    \/ BuildQuery
    \/ AddPercentages
    \/ AddDownloadTotal
    \/ Tabulate

Spec == Init /\ [][Next]_vars

\* ======================================================= reading the query
\* The first position of piece in text at or after from, 0 when there is none.
PieceFrom(text, piece, from) ==
    IF \E i \in from..Len(text) : text[i] = piece
    THEN CHOOSE i \in from..Len(text) :
             text[i] = piece /\ \A j \in from..(i - 1) : text[j] # piece
    ELSE 0

Count(list, x) == Cardinality({i \in 1..Len(list) : list[i] = x})

\* the two timestamp expressions of the BETWEEN condition
StartExprOf(query) ==
    SubSeq(query, PieceFrom(query, "\nWHERE timestamp BETWEEN ", 1) + 1,
           PieceFrom(query, " AND ", 1) - 1)
BetweenEnd(query) == PieceFrom(query, "\n", PieceFrom(query, " AND ", 1))
EndExprOf(query) ==
    SubSeq(query, PieceFrom(query, " AND ", 1) + 1, BetweenEnd(query) - 1)

\* what follows the BETWEEN line, up to GROUP BY or ORDER BY
FiltersOf(query) ==
    LET g == PieceFrom(query, GROUP_BY, 1)
        o == PieceFrom(query, "ORDER BY\n  ", 1)
    IN  SubSeq(query, BetweenEnd(query) + 1, (IF g # 0 THEN g ELSE o) - 1)

HasGroupBy(query) == PieceFrom(query, GROUP_BY, 1) # 0
\* what follows the GROUP BY line, up to ORDER BY
GroupListOf(query) ==
    SubSeq(query, PieceFrom(query, GROUP_BY, 1) + 1,
           PieceFrom(query, "ORDER BY\n  ", 1) - 1)

\* the query from ORDER BY on
EndingOf(query) ==
    SubSeq(query, PieceFrom(query, "ORDER BY\n  ", 1), Len(query))

\* the fields of the SELECT list, read back from `  <data> as <name>,` lines
RECURSIVE ReadSelect(_)
ReadSelect(text) ==
    IF text = << >> THEN << >>
    ELSE LET k == PieceFrom(text, ",\n", 1)
         IN  <<[name |-> SubSeq(text, 4, k - 1), data |-> text[2]]>>
                 \o ReadSelect(SubSeq(text, k + 1, Len(text)))
SelectOf(query) == ReadSelect(SubSeq(query, 2, PieceFrom(query, FROM, 1) - 1))

\* the distinct entries of a list, in the order of their first occurrence
RECURSIVE FirstOccurrences(_, _)
FirstOccurrences(list, i) ==
    IF i > Len(list) THEN << >>
    ELSE (IF \E j \in 1..(i - 1) : list[j] = list[i] THEN << >>
          ELSE <<list[i]>>)
             \o FirstOccurrences(list, i + 1)

\* the bounds build_query works with, as they were written: the end bound
\* after defaulting, the start bound after defaulting and the day count
RelNow(n) == <<DATE_ADD[1]>> \o Str(n) \o <<DATE_ADD[2]>>
GivenBound(opt, default) ==
    IF opt = None \/ opt[1].kind = "empty"
    THEN [txt |-> Str(default), kind |-> "rel", n |-> default]
    ELSE opt[1]
EndBound == GivenBound(q.end_date, 0 - 1)
DaysGiven == q.days # None /\ q.days[1] # 0
StartBound ==
    IF ~DaysGiven THEN GivenBound(q.start_date, 0 - 31)
    ELSE IF EndBound.kind = "rel"
    THEN [txt |-> << >>, kind |-> "rel", n |-> EndBound.n - q.days[1]]
    ELSE [txt |-> << >>, kind |-> "none", n |-> 0]

\* ================================================================== claims

\* C1: when both bounds, after defaulting, the day-count step and
\* normalisation, are relative offsets with start >= end, build_query fails
\* with 'End date must be greater than start date.' and returns no query.
\* (Stated for offsets validate_date accepts, i.e. negative ones.)
C1_InvalidRangeRejected ==
    (/\ res.called
     /\ StartBound.kind = "rel" /\ EndBound.kind = "rel"
     /\ StartBound.n < 0 /\ EndBound.n < 0
     /\ StartBound.n >= EndBound.n)
    => (/\ ~res.ok
        /\ res.error = "ValueError: End date must be greater than start date."
        /\ res.query = << >>)

\* C3: the query has a GROUP BY clause only if a selected field other than
\* Downloads is non-aggregate, and then the clause lists the names of exactly
\* the non-aggregate fields in first-occurrence order; with no non-aggregate
\* field the clause is left out.
GroupNames ==
    LET distinct == FirstOccurrences(q.all_fields, 1)
        keep(f) == f # Downloads /\ f \notin AGGREGATES
    IN  [i \in 1..Len(SelectSeq(distinct, keep)) |->
            SelectSeq(distinct, keep)[i].name]
C3_GroupByNonAggregates ==
    (res.called /\ res.ok)
    => IF GroupNames = << >> THEN ~HasGroupBy(res.query)
       ELSE /\ HasGroupBy(res.query)
            /\ GroupListOf(res.query)
                   = <<" ", " ">> \o Join(GroupNames, <<",", " ">>) \o <<"\n">>

\* C4 as stated: the SELECT list holds each distinct requested field exactly
\* once, in first-occurrence order, and Downloads exactly once, last.
C4_Original ==
    (res.called /\ res.ok)
    => LET sel == SelectOf(res.query)
       IN  /\ sel = FirstOccurrences(q.all_fields, 1) \o <<Downloads>>
           /\ \A i \in 1..Len(q.all_fields) : Count(sel, q.all_fields[i]) = 1
           /\ Count(sel, Downloads) = 1

\* C4 as amended: when Downloads is not among the requested fields, the
\* SELECT list holds each distinct requested field exactly once, in
\* first-occurrence order, followed by Downloads, exactly once; when
\* Downloads is requested it is selected twice, at its first requested
\* position and last.
C4_SelectDeduplicated ==
    (res.called /\ res.ok)
    => LET sel == SelectOf(res.query)
           asked == \E i \in 1..Len(q.all_fields) : q.all_fields[i] = Downloads
       IN  /\ sel = FirstOccurrences(q.all_fields, 1) \o <<Downloads>>
           /\ \A i \in 1..Len(q.all_fields) :
                  q.all_fields[i] # Downloads => Count(sel, q.all_fields[i]) = 1
           /\ Count(sel, Downloads) = IF asked THEN 2 ELSE 1
C4_Witness ==
    /\ res.called /\ res.ok
    /\ Len(q.all_fields) = 3
    /\ q.all_fields[1] = q.all_fields[3] /\ q.all_fields[1] # q.all_fields[2]
    /\ \A i \in 1..3 : q.all_fields[i] # Downloads

\* C5 as stated: validate_date returns True for every negative-integer
\* string, for 0 and for every valid calendar date, raises for every other
\* string, and never returns False.
C5_Original ==
    ret # "none"
    => /\ ret \in {"True", "ValueError"}
       /\ ret = "True" <=> arg.kind \in {"negint", "zero", "day"}

\* C5 as amended: validate_date returns True for every string that reads as
\* a negative integer and for every calendar date written year-month-day,
\* and raises for every other string, 0 included; it never returns False.
C5_ValidateDate ==
    ret # "none"
    => /\ ret \in {"True", "ValueError"}
       /\ ret = "True" <=> arg.kind \in {"negint", "day"}
C5_Witness == ret = "ValueError" /\ arg.kind = "zero"


\* C7 as stated: whenever a day-count is given, build_query replaces the
\* start bound by the relative offset end - dayCount, whatever start bound
\* was supplied, so the start expression of the query is the relative-now
\* expression for end - dayCount.
C7_Original ==
    (res.called /\ DaysGiven)
    => /\ res.error # "ValueError: invalid literal for int()"
       /\ res.ok => StartExprOf(res.query) = RelNow(EndBound.n - q.days[1])

\* C7 as amended: whenever a day-count other than 0 is given and the end
\* bound, after defaulting, is an integer offset, the start bound becomes
\* end - dayCount whatever start bound was supplied, and a query that is
\* returned has the relative-now expression for end - dayCount as its start
\* expression; when the end bound is a calendar date or a year-month,
\* build_query fails with the ValueError of int() and returns no query.
C7_DayCountSetsStart ==
    (res.called /\ DaysGiven)
    => IF EndBound.kind = "rel"
       THEN /\ res.error # "ValueError: invalid literal for int()"
            /\ res.ok => StartExprOf(res.query) = RelNow(EndBound.n - q.days[1])
            /\ (EndBound.n < 0 /\ EndBound.n - q.days[1] < 0) => res.ok
       ELSE /\ ~res.ok /\ res.query = << >>
            /\ res.error = "ValueError: invalid literal for int()"
C7_Witness ==
    /\ res.called /\ res.ok /\ DaysGiven
    /\ q.start_date # None /\ q.start_date[1].kind = "day"
    /\ q.end_date # None /\ q.end_date[1].kind = "rel"

\* C8: after the BETWEEN condition a raw WHERE fragment, when one is given,
\* is appended verbatim with AND and neither the project nor the pip filter
\* is emitted; otherwise the project filter on the canonical name is emitted
\* exactly when the project name is non-empty and the pip filter exactly
\* when pip is requested, each joined with AND, and nothing when neither
\* applies; the query ends with ORDER BY <override or download_count> DESC
\* and LIMIT <limit>.  (An empty fragment, an empty override and a limit of
\* 0 count as not given: the limit is then 10.)
ExpectedFilters ==
    IF q.where # None /\ q.where[1] # << >>
    THEN <<"  AND ">> \o q.where[1] \o <<"\n">>
    ELSE (IF q.project.txt # << >>
          THEN <<"  AND ", "file.project = \"">> \o q.project.canon
                   \o <<"\"\n">>
          ELSE << >>)
         \o (IF q.pip THEN <<"  AND ", "details.installer.name = \"pip\"\n">>
             ELSE << >>)
ExpectedEnding ==
    <<"ORDER BY\n  ">>
        \o (IF q.order # None /\ q.order[1] # << >> THEN q.order[1]
            ELSE DownloadCount)
        \o <<" DESC\n", "LIMIT ">>
        \o (IF q.limit # None /\ q.limit[1] # 0 THEN Str(q.limit[1])
            ELSE <<"1", "0">>)
C8_FiltersAndEnding ==
    (res.called /\ res.ok)
    => /\ FiltersOf(res.query) = ExpectedFilters
       /\ EndingOf(res.query) = ExpectedEnding
C8_Witness ==
    /\ res.called /\ res.ok
    /\ q.project.canon = <<"r", "e", "q", "u", "e", "s", "t", "s">>
    /\ q.pip /\ q.where = None /\ q.limit = Some(5) /\ q.order = None
    /\ FiltersOf(res.query)
           = <<"  AND ", "file.project = \"", "r", "e", "q", "u", "e", "s",
               "t", "s", "\"\n", "  AND ",
               "details.installer.name = \"pip\"\n">>

\* ------------------------------------------------------------- the shaper
\* a table as the executor returns it: download_count in the header
WellFormed(table) ==
    /\ table # << >>
    /\ \E i \in 1..Len(table[1]) : table[1][i] = DownloadCount
    /\ \A r \in 1..Len(table) : Len(table[r]) = Len(table[1])
CountColumn(table) ==
    CHOOSE i \in 1..Len(table[1]) :
        table[1][i] = DownloadCount
        /\ \A j \in 1..(i - 1) : table[1][j] # DownloadCount
RECURSIVE CountSum(_, _, _)
CountSum(table, column, r) ==
    IF r > Len(table) THEN 0
    ELSE NatOf(table[r][column]) + CountSum(table, column, r + 1)

\* C2: tabulate measures each column after the digit-only cells have been
\* rewritten with thousands separators: every column's width is at least the
\* length of every cell as rendered in it, the header cell included.
C2_WidthCoversRenderedCells ==
    (out.op = "tabulate" /\ out.err = "" /\ WellFormed(prev))
    => \A i \in 1..Len(out.headers) :
           /\ out.column_widths[i] >= Len(out.headers[i])
           /\ \A r \in 1..Len(rows) : out.column_widths[i] >= Len(rows[r][i])

\* C6 as stated: add_download_total appends exactly one row whose first cell
\* is "Total", whose download_count cell is the sum of the download_count
\* cells of the data rows and whose other cells are empty, wherever the
\* download_count column is.
C6_Original ==
    (out.op = "add_download_total" /\ out.err = "")
    => LET c == CountColumn(prev)
           last == rows[Len(rows)]
       IN  /\ Len(rows) = Len(prev) + 1
           /\ SubSeq(rows, 1, Len(prev)) = prev
           /\ Len(last) = Len(prev[1])
           /\ last[1] = TotalCell
           /\ last[c] = Str(CountSum(prev, c, 2))
           /\ \A i \in 1..Len(last) : (i # 1 /\ i # c) => last[i] = << >>

\* C6 as amended: add_download_total appends exactly one row whose
\* download_count cell is the sum of the download_count cells of the data
\* rows, whose first cell is "Total" unless download_count is the first
\* column (the sum then takes the place of the label) and whose other cells
\* are empty.
C6_TotalRow ==
    (out.op = "add_download_total" /\ out.err = "")
    => LET c == CountColumn(prev)
           last == rows[Len(rows)]
       IN  /\ Len(rows) = Len(prev) + 1
           /\ SubSeq(rows, 1, Len(prev)) = prev
           /\ Len(last) = Len(prev[1])
           /\ c # 1 => last[1] = TotalCell
           /\ last[c] = Str(CountSum(prev, c, 2))
           /\ \A i \in 1..Len(last) : (i # 1 /\ i # c) => last[i] = << >>
C6_Witness ==
    /\ out.op = "add_download_total" /\ out.err = ""
    /\ Len(prev) > 2 /\ Len(prev[1]) > 1 /\ CountColumn(prev) = 1
    /\ rows[Len(rows)][1] = <<"1", "2", "4", "1">>

\* C9: from a table whose rows are as long as its header, with
\* download_count once in the header over digit-only cells of non-zero sum,
\* any sequence of add_percentages and add_download_total calls leaves every
\* row as long as the header, and the header the first row.
OnlyAdds ==
    \A i \in 1..Len(calls) :
        calls[i] \in {"add_percentages", "add_download_total"}
C9_RowsKeepHeaderLength ==
    (/\ unit = "shaper" /\ OnlyAdds
     /\ CountSum(rows0, CountColumn(rows0), 2) # 0)
    => /\ out.err = ""
       /\ \A r \in 1..Len(rows) : Len(rows[r]) = Len(rows[1])
       /\ Len(rows[1])
              = Len(rows0[1]) + Count(calls, "add_percentages")
       /\ SelectSeq(rows[1], LAMBDA cell : cell # PercentCell) = rows0[1]
       /\ Len(rows) = Len(rows0) + Count(calls, "add_download_total")
C9_Witness ==
    /\ unit = "shaper" /\ OnlyAdds
    /\ CountSum(rows0, CountColumn(rows0), 2) # 0
    /\ Len(calls) >= 3
    /\ calls[1] = "add_download_total" /\ calls[2] = "add_percentages"
    /\ calls[3] = "add_download_total"

\* C10: tabulate leaves the table it is given unchanged.
C10_TabulateLeavesTable ==
    (out.op = "tabulate" /\ out.err = "" /\ WellFormed(prev)) => rows = prev

====
